---------------------------- MODULE Spec2Model ----------------------------
(***************************************************************************)
(* Model of the chunk slicer operator (src/chunk_slicer.py).               *)
(*                                                                         *)
(* Lengths are exact fixed-point numbers in units of 0.001, so the         *)
(* coincidence tolerance 0.001 of _loc_overlaps is 1 unit.  The source is  *)
(* an axis-aligned box with an identity object transform, so that          *)
(* obj.dimensions is the extent of the vertex set.  Every fragment of a    *)
(* box is a box (or has no geometry), and is kept as its extent per axis.  *)
(* Extents are drawn as multiples of slice_qty + 1, which makes the        *)
(* quotient dim / qty of the RELATIVE mode exact on this grid.             *)
(***************************************************************************)
EXTENDS Integers, Sequences, FiniteSets

\* ------------------------------------------------------------------ bounds
\* slice_qty ranges over 2..MaxSliceQty (the property's minimum is 2).
MaxSliceQty == 2

\* Cell widths of the source: the extent of an axis is width * (slice_qty+1).
CellWidths == {0, 1, 2}

\* Values of cell_size (FIXED mode), all valid (> 0).
CellSizes == {3, 4, 5}

\* Values of cleanup_threshold.
Thresholds == {0, 1}

\* Minimum vertex coordinate of the source box on each axis.
SourceMin == [a \in {"x", "y", "z"} |-> IF a = "x" THEN -2 ELSE IF a = "y" THEN 0 ELSE 5]

\* --------------------------------------------------------------- constants
Axes == {"x", "y", "z"}

\* cell_size default 0.3; the value is not read in RELATIVE mode.
DefaultCellSize == 300

\* abs(loc_diff) <= 0.001, in units of 0.001
Tolerance == 1

SourceId == 1

VARIABLES
    \* the operator's properties (lines 26-82)
    slice_type, cell_size, slice_qty, cleanup_threshold, x, y, z, force,
    \* whether every edge of the source mesh is manifold (line 141)
    manifold,
    \* every object created so far, the source first; linked tells whether
    \* the collection (and so the view layer) still holds it
    objects,
    \* self.obj, self.orig_name, self.dims, self.current_obj (invoke)
    obj, orig_name, dims, current_obj,
    \* self.slice_locs, self.num_slices (_get_slice_locs)
    slice_locs, num_slices,
    \* the output lists of the x and y levels
    sliced_x, sliced_y,
    \* the fields shared by the tasks of a level
    current_axis, current_loc, current_index,
    \* position of execute, and what it returned
    pc, result,
    \* the tasks a gather has scheduled and the loop has not run yet
    ready,
    \* the running task, whether a task raised, position of the for loop
    frame, exc, pos,
    \* cleanup_objs of _cleanup_objs
    cleanup_objs,
    \* history: the bisect calls issued, and the order of the phases in
    \* which the scene was mutated
    cuts, phases

props == <<slice_type, cell_size, slice_qty, cleanup_threshold, x, y, z, force, manifold>>

vars == <<slice_type, cell_size, slice_qty, cleanup_threshold, x, y, z, force,
          manifold, objects, obj, orig_name, dims, current_obj, slice_locs,
          num_slices, sliced_x, sliced_y, current_axis, current_loc,
          current_index, pc, result, ready, frame, exc, pos, cleanup_objs,
          cuts, phases>>

\* ------------------------------------------------------------------- names
OrigName == [kind |-> "orig", index |-> 0, axis |-> "-"]

InertName == [kind |-> "Sliced_Original", index |-> 0, axis |-> "-"]

\* f"__Sliced__{self.current_index}__{self.current_axis}"
TempName(index, axis) == [kind |-> "__Sliced__", index |-> index, axis |-> axis]

\* f"{orig_name}_Sliced_{i+1}"
FinalName(i) == [kind |-> "_Sliced_", index |-> i + 1, axis |-> "-"]

\* ------------------------------------------------------------ slice plan
abs(v) == IF v < 0 THEN -v ELSE v

_get_start_loc(axis) == objects[SourceId].lo[axis]

_get_end_loc(axis) == objects[SourceId].hi[axis]

\* The loop "new_loc = current_loc + step; append; current_loc = new_loc".
RECURSIVE AppendLocs(_, _, _)
AppendLocs(loc, step, count) ==
    IF count <= 0 THEN <<>>
    ELSE <<loc + step>> \o AppendLocs(loc + step, step, count - 1)

FixedNumSlices(dim, size) == dim \div size

\* Variant: an axis exactly one cell long is still sliced.
FixedLocsStrict(start, dim, size) ==
    IF dim < size THEN <<>>
    ELSE AppendLocs(start, size, FixedNumSlices(dim, size) + 1)

FixedLocs(start, dim, size) ==
    IF dim <= size THEN <<>>
    ELSE AppendLocs(start, size, FixedNumSlices(dim, size) + 1)

\* Variant: one coordinate per interior plane only.
RelativeQtyInterior(q) == q

RelativeQty(q) == q + 1

RelativeCellSize(dim, q) == dim \div RelativeQty(q)

RelativeLocs(start, dim, q) ==
    AppendLocs(start, RelativeCellSize(dim, q), RelativeQty(q))

NumSlicesOf(type, d, size, q) ==
    [a \in Axes |-> IF type = "FIXED" THEN FixedNumSlices(d[a], size)
                    ELSE RelativeQty(q)]

SliceLocsOf(type, start, d, size, q) ==
    [a \in Axes |-> IF type = "FIXED" THEN FixedLocs(start[a], d[a], size)
                    ELSE RelativeLocs(start[a], d[a], q)]

_slices_in_axis(axis) == num_slices[axis]

\* ------------------------------------------------------------- geometry
_get_plane_co(axis, loc) == [a \in Axes |-> IF a = axis THEN loc ELSE 0]

_get_plane_no(axis) == [a \in Axes |-> IF a = axis THEN 1 ELSE 0]

Dot(u, v) == u["x"] * v["x"] + u["y"] * v["y"] + u["z"] * v["z"]

NormalAxis(no) == CHOOSE a \in Axes : no[a] = 1

NoGeometry(o) ==
    [o EXCEPT !.verts = FALSE, !.lo = [a \in Axes |-> 0], !.hi = [a \in Axes |-> 0]]

\* bpy.ops.mesh.bisect on a box: clear_inner removes what lies on the
\* negative side of the plane, clear_outer what lies on the positive side;
\* geometry on the plane itself stays.
Bisect(o, plane_co, plane_no, clear_inner, clear_outer) ==
    LET a == NormalAxis(plane_no)
        d == Dot(plane_co, plane_no)
        inner == IF ~clear_inner \/ ~o.verts THEN o
                 ELSE IF d > o.hi[a] THEN NoGeometry(o)
                 ELSE IF d > o.lo[a] THEN [o EXCEPT !.lo[a] = d]
                 ELSE o
    IN  IF ~clear_outer \/ ~inner.verts THEN inner
        ELSE IF d < inner.lo[a] THEN NoGeometry(inner)
        ELSE IF d < inner.hi[a] THEN [inner EXCEPT !.hi[a] = d]
        ELSE inner

\* obj.dimensions
Dimensions(o) == [a \in Axes |-> IF o.verts THEN o.hi[a] - o.lo[a] ELSE 0]

_loc_overlaps(loc, axis) == abs(loc - _get_end_loc(axis)) <= Tolerance

\* _slice: one bisect of current_obj at current_loc (passed as loc).
_slice(objs, target, axis, loc, clear_inner, clear_outer) ==
    [objs EXCEPT ![target] =
        Bisect(objs[target], _get_plane_co(axis, loc), _get_plane_no(axis),
               clear_inner, clear_outer)]

CutRecord(target, axis, loc, side, i) ==
    [obj |-> target, axis |-> axis, loc |-> loc, side |-> side, index |-> i]

\* _duplicate_obj: copy of self.obj with its own mesh data, tagged and linked.
\* parent remembers the object it was copied from.
_duplicate_obj(objs, src, index, axis) ==
    Append(objs, [objs[src] EXCEPT !.name = TempName(index, axis),
                                   !.linked = TRUE, !.hidden = FALSE,
                                   !.parent = src])

\* Variant: the enumeration misses the last argument.
CorosShort(args, outlist) ==
    [k \in 1..(Len(args) - 1) |-> [index |-> k - 1, arg |-> args[k], outlist |-> outlist]]

\* The coroutines built over enumerate(args), in creation order; gather
\* schedules them in that order on the event loop.
Coros(args, outlist) ==
    [k \in 1..Len(args) |-> [index |-> k - 1, arg |-> args[k], outlist |-> outlist]]

\* History of the phases in which the scene was mutated.
Note(log, phase) ==
    IF Len(log) > 0 /\ log[Len(log)] = phase THEN log ELSE Append(log, phase)

\* The frame of the running async_slice task: its position and the locals
\* axis, i of _slice_operation; outlist is the list async_slice appends to.
IdleFrame == [pc |-> "idle", axis |-> "-", i |-> 0, outlist |-> "None"]

\* -------------------------------------------------------------------- Init
\* A linked object an earlier run left under its temporary tag (context.
\* view_layer.objects holds it; its name contains "__Sliced__").
Leftover ==
    [lo |-> SourceMin, hi |-> [a \in Axes |-> SourceMin[a] + 2],
     verts |-> TRUE, name |-> TempName(0, "x"),
     linked |-> TRUE, hidden |-> FALSE, parent |-> 0]

\* Another object of the scene, unrelated to the add-on.
Bystander ==
    [lo |-> SourceMin, hi |-> [a \in Axes |-> SourceMin[a] + 2],
     verts |-> TRUE, name |-> [kind |-> "other", index |-> 0, axis |-> "-"],
     linked |-> TRUE, hidden |-> FALSE, parent |-> 0]

\* The operator after invoke, before execute: the properties as the dialog
\* left them, the active object and its dimensions; scenes are the possible
\* lists of the other objects of the view layer.
Setup(widths, sizes, thresholds, flags, scenes) ==
    /\ slice_type \in {"RELATIVE", "FIXED"}
    /\ cell_size \in IF slice_type = "FIXED" THEN sizes ELSE {DefaultCellSize}
    /\ slice_qty \in 2..MaxSliceQty
    /\ cleanup_threshold \in thresholds
    /\ x \in flags /\ y \in flags /\ z \in flags
    /\ force \in flags
    /\ manifold \in flags
    /\ \E e \in [Axes -> widths] :
          \E others \in scenes :
              objects = << [lo |-> SourceMin,
                            hi |-> [a \in Axes |-> SourceMin[a] + e[a] * (slice_qty + 1)],
                            verts |-> TRUE, name |-> OrigName,
                            linked |-> TRUE, hidden |-> FALSE, parent |-> 0] >> \o others
    /\ obj = SourceId
    /\ orig_name = OrigName
    /\ dims = [a \in Axes |-> objects[SourceId].hi[a] - objects[SourceId].lo[a]]
    /\ current_obj = SourceId
    /\ slice_locs = [a \in Axes |-> <<>>]
    /\ num_slices = [a \in Axes |-> 0]
    /\ sliced_x = <<>>
    /\ sliced_y = <<>>
    /\ current_axis = "-"
    /\ current_loc = 0
    /\ current_index = 0
    /\ pc = "execute"
    /\ result = "NONE"
    /\ ready = <<>>
    /\ frame = IdleFrame
    /\ exc = FALSE
    /\ pos = 0
    /\ cleanup_objs = <<>>
    /\ cuts = {}
    /\ phases = <<>>

Init == Setup(CellWidths, CellSizes, Thresholds, BOOLEAN, {<<>>})

\* A wider range of bounds and cell sizes for the slice plan builder alone.
PlanInit == Setup(0..4, 1..7, {0}, {TRUE}, {<<>>})

\* A scene that holds, besides the source, a tagged object of an earlier run
\* and an unrelated object.
SceneInit == Setup(CellWidths, CellSizes, {0}, BOOLEAN, {<<Leftover, Bystander>>})

\* ----------------------------------------------------------------- execute
\* execute, lines 330-331 and 394: reset the level lists, build the plan.
GetSliceLocs ==
    /\ pc = "execute"
    /\ sliced_x' = <<>>
    /\ sliced_y' = <<>>
    /\ slice_locs' = SliceLocsOf(slice_type, [a \in Axes |-> _get_start_loc(a)],
                                 dims, cell_size, slice_qty)
    /\ num_slices' = NumSlicesOf(slice_type, dims, cell_size, slice_qty)
    /\ pc' = "gate"
    /\ UNCHANGED <<props, objects, obj, orig_name, dims, current_obj,
                   current_axis, current_loc, current_index, result,
                   ready, frame, exc, pos, cleanup_objs, cuts, phases>>

num_axes_selected == (IF x THEN 1 ELSE 0) + (IF y THEN 1 ELSE 0) + (IF z THEN 1 ELSE 0)

\* line 395
ManifoldGateRejects == ~force /\ ~manifold

\* Variant: the original is hidden and renamed before the gate is consulted.
CancelNonManifoldAfterHide ==
    /\ pc = "gate"
    /\ ManifoldGateRejects
    /\ objects' = [objects EXCEPT ![obj].hidden = TRUE, ![obj].name = InertName]
    /\ result' = "CANCELLED"
    /\ pc' = "done"
    /\ UNCHANGED <<props, obj, orig_name, dims, current_obj, slice_locs,
                   num_slices, sliced_x, sliced_y, current_axis, current_loc,
                   current_index, ready, frame, exc, pos, cleanup_objs, cuts, phases>>

\* lines 395-399
CancelNonManifold ==
    /\ pc = "gate"
    /\ ManifoldGateRejects
    /\ result' = "CANCELLED"
    /\ pc' = "done"
    /\ UNCHANGED <<props, objects, obj, orig_name, dims, current_obj, slice_locs,
                   num_slices, sliced_x, sliced_y, current_axis, current_loc,
                   current_index, ready, frame, exc, pos, cleanup_objs, cuts, phases>>

\* lines 408-410
CancelNoAxis ==
    /\ pc = "gate"
    /\ ~ManifoldGateRejects
    /\ num_axes_selected = 0
    /\ result' = "CANCELLED"
    /\ pc' = "done"
    /\ UNCHANGED <<props, objects, obj, orig_name, dims, current_obj, slice_locs,
                   num_slices, sliced_x, sliced_y, current_axis, current_loc,
                   current_index, ready, frame, exc, pos, cleanup_objs, cuts, phases>>

\* line 411: both gates passed, the cascade starts.
StartCascade ==
    /\ pc = "gate"
    /\ ~ManifoldGateRejects
    /\ num_axes_selected # 0
    /\ pc' = "x"
    /\ UNCHANGED <<props, objects, obj, orig_name, dims, current_obj, slice_locs,
                   num_slices, sliced_x, sliced_y, current_axis, current_loc,
                   current_index, result, ready, frame, exc, pos, cleanup_objs,
                   cuts, phases>>

\* --------------------------------------------------------- one task
Gathering == pc \in {"x_gather", "y_gather", "z_gather"}

\* Variant: the level does not await its gather.
GatherNotAwaited == TRUE

\* The gather of the level has nothing left to run.
GatherDone == ready = <<>> /\ frame.pc = "idle"

\* A task whose duplicate is not stored in current_obj: the cuts and the
\* append go to whatever current_obj held before.
AsyncSliceStale ==
    /\ Gathering
    /\ frame.pc = "idle"
    /\ ready # <<>>
    /\ LET t == Head(ready) IN
        /\ current_loc' = t.arg
        /\ current_index' = t.index
        /\ objects' = _duplicate_obj(objects, obj, t.index, current_axis)
        /\ frame' = [pc |-> "inner", axis |-> current_axis, i |-> t.index,
                     outlist |-> t.outlist]
    /\ ready' = Tail(ready)
    /\ phases' = Note(phases, current_axis)
    /\ UNCHANGED <<props, obj, orig_name, dims, slice_locs, num_slices, sliced_x,
                   sliced_y, current_axis, pc, result, exc, pos, cleanup_objs, cuts,
                   current_obj>>

\* async_slice lines 320-321, _slice_operation lines 193-195.
AsyncSlice ==
    /\ Gathering
    /\ frame.pc = "idle"
    /\ ready # <<>>
    /\ LET t == Head(ready) IN
        /\ current_loc' = t.arg
        /\ current_index' = t.index
        /\ objects' = _duplicate_obj(objects, obj, t.index, current_axis)
        /\ current_obj' = Len(objects) + 1
        /\ frame' = [pc |-> "inner", axis |-> current_axis, i |-> t.index,
                     outlist |-> t.outlist]
    /\ ready' = Tail(ready)
    /\ phases' = Note(phases, current_axis)
    /\ UNCHANGED <<props, obj, orig_name, dims, slice_locs, num_slices, sliced_x,
                   sliced_y, current_axis, pc, result, exc, pos, cleanup_objs, cuts>>

\* line 201
CutsBefore(i) == i # 0

\* line 208
CutsAfter(i, axis, loc) == i # _slices_in_axis(axis) /\ ~_loc_overlaps(loc, axis)

\* An interior cut placed at the task's own coordinate.
PreviousLocOwn(axis, i) == slice_locs[axis][i + 1]

\* self.slice_locs[axis][i - 1]
PreviousLoc(axis, i) == slice_locs[axis][i]

\* _slice_operation lines 201-205
SliceInner ==
    /\ frame.pc = "inner"
    /\ IF CutsBefore(frame.i)
       THEN /\ objects' = _slice(objects, current_obj, frame.axis,
                                 PreviousLoc(frame.axis, frame.i), TRUE, FALSE)
            /\ cuts' = cuts \cup {CutRecord(current_obj, frame.axis,
                                    PreviousLoc(frame.axis, frame.i), "inner", frame.i)}
            /\ phases' = Note(phases, frame.axis)
       ELSE UNCHANGED <<objects, cuts, phases>>
    /\ frame' = [frame EXCEPT !.pc = "outer"]
    /\ UNCHANGED <<props, obj, orig_name, dims, current_obj, slice_locs, num_slices,
                   sliced_x, sliced_y, current_axis, current_loc, current_index,
                   pc, result, ready, exc, pos, cleanup_objs>>

\* _slice_operation lines 208-209
SliceOuter ==
    /\ frame.pc = "outer"
    /\ IF CutsAfter(frame.i, frame.axis, current_loc)
       THEN /\ objects' = _slice(objects, current_obj, frame.axis, current_loc,
                                 FALSE, TRUE)
            /\ cuts' = cuts \cup {CutRecord(current_obj, frame.axis, current_loc,
                                            "outer", frame.i)}
            /\ phases' = Note(phases, frame.axis)
       ELSE UNCHANGED <<objects, cuts, phases>>
    /\ frame' = [frame EXCEPT !.pc = "return"]
    /\ UNCHANGED <<props, obj, orig_name, dims, current_obj, slice_locs, num_slices,
                   sliced_x, sliced_y, current_axis, current_loc, current_index,
                   pc, result, ready, exc, pos, cleanup_objs>>

\* async_slice lines 323-327
AsyncSliceReturn ==
    /\ frame.pc = "return"
    /\ sliced_x' = IF frame.outlist = "sliced_x" THEN Append(sliced_x, current_obj)
                   ELSE sliced_x
    /\ sliced_y' = IF frame.outlist = "sliced_y" THEN Append(sliced_y, current_obj)
                   ELSE sliced_y
    /\ frame' = IdleFrame
    /\ UNCHANGED <<props, objects, obj, orig_name, dims, current_obj, slice_locs,
                   num_slices, current_axis, current_loc, current_index, pc, result,
                   ready, exc, pos, cleanup_objs, cuts, phases>>

\* bpy.ops.mesh.bisect raises inside _slice (lines 165-171): the exception
\* ends the task; the tasks gather already scheduled still run, and the
\* gather hands the exception to the awaiting level afterwards.
BisectFails ==
    /\ \/ frame.pc = "inner" /\ CutsBefore(frame.i)
       \/ frame.pc = "outer" /\ CutsAfter(frame.i, frame.axis, current_loc)
    /\ exc' = TRUE
    /\ frame' = IdleFrame
    /\ UNCHANGED <<props, objects, obj, orig_name, dims, current_obj, slice_locs,
                   num_slices, sliced_x, sliced_y, current_axis, current_loc,
                   current_index, pc, result, ready, pos, cleanup_objs, cuts, phases>>

\* The exception leaves run_until_complete and execute (no handler).
Raise ==
    /\ Gathering
    /\ GatherDone
    /\ exc
    /\ result' = "ERROR"
    /\ pc' = "done"
    /\ UNCHANGED <<props, objects, obj, orig_name, dims, current_obj, slice_locs,
                   num_slices, sliced_x, sliced_y, current_axis, current_loc,
                   current_index, ready, frame, exc, pos, cleanup_objs, cuts, phases>>

\* ------------------------------------------------------------ the levels
Hide(objs, id) == [objs EXCEPT ![id].hidden = TRUE, ![id].name = InertName]

\* context.collection.objects.unlink(obj)
Unlink(objs, id) == [objs EXCEPT ![id].linked = FALSE]

\* lines 413-414, 336-349: slice_x up to its gather.
SliceX ==
    /\ pc = "x"
    /\ x
    /\ current_axis' = "x"
    /\ ready' = Coros(slice_locs["x"], "sliced_x")
    /\ pc' = "x_gather"
    /\ UNCHANGED <<props, objects, obj, orig_name, dims, current_obj, slice_locs,
                   num_slices, sliced_x, sliced_y, current_loc, current_index,
                   result, frame, exc, pos, cleanup_objs, cuts, phases>>

\* line 413, self.x false
SkipX ==
    /\ pc = "x"
    /\ ~x
    /\ pc' = "y"
    /\ UNCHANGED <<props, objects, obj, orig_name, dims, current_obj, slice_locs,
                   num_slices, sliced_x, sliced_y, current_axis, current_loc,
                   current_index, result, ready, frame, exc, pos, cleanup_objs,
                   cuts, phases>>

\* slice_x is complete: lines 415-416.
HideOriginal ==
    /\ pc = "x_gather"
    /\ GatherDone
    /\ ~exc
    /\ objects' = Hide(objects, obj)
    /\ phases' = Note(phases, "x")
    /\ pc' = "y"
    /\ UNCHANGED <<props, obj, orig_name, dims, current_obj, slice_locs, num_slices,
                   sliced_x, sliced_y, current_axis, current_loc, current_index,
                   result, ready, frame, exc, pos, cleanup_objs, cuts>>

\* lines 357-358
InputsOfY == IF sliced_x = <<>> THEN <<obj>> ELSE sliced_x

\* A slice_z that does not fall back on the X fragments when Y did not cut.
InputsOfZNoFallback == IF sliced_y # <<>> THEN sliced_y ELSE <<obj>>

\* lines 382-386
InputsOfZ ==
    IF sliced_y # <<>> THEN sliced_y
    ELSE IF sliced_x = <<>> THEN <<obj>> ELSE sliced_x

\* A slice_y without the `if y_locs` guard: the inputs are walked and
\* unlinked although no coordinate was generated.
SliceYUnguarded ==
    /\ pc = "y"
    /\ y
    /\ current_axis' = "y"
    /\ sliced_x' = InputsOfY
    /\ pos' = 1
    /\ pc' = "y_loop"
    /\ UNCHANGED <<props, objects, obj, orig_name, dims, current_obj, slice_locs,
                   num_slices, sliced_y, current_loc, current_index, result, ready,
                   frame, exc, cleanup_objs, cuts, phases>>

\* lines 417-418, 352-358: slice_y up to its loop.
SliceY ==
    /\ pc = "y"
    /\ y
    /\ current_axis' = "y"
    /\ IF slice_locs["y"] # <<>>
       THEN /\ sliced_x' = InputsOfY
            /\ pos' = 1
            /\ pc' = "y_loop"
       ELSE /\ pc' = "z"
            /\ UNCHANGED <<sliced_x, pos>>
    /\ UNCHANGED <<props, objects, obj, orig_name, dims, current_obj, slice_locs,
                   num_slices, sliced_y, current_loc, current_index, result, ready,
                   frame, exc, cleanup_objs, cuts, phases>>

\* line 417, self.y false
SkipY ==
    /\ pc = "y"
    /\ ~y
    /\ pc' = "z"
    /\ UNCHANGED <<props, objects, obj, orig_name, dims, current_obj, slice_locs,
                   num_slices, sliced_x, sliced_y, current_axis, current_loc,
                   current_index, result, ready, frame, exc, pos, cleanup_objs,
                   cuts, phases>>

\* lines 359-370: the next input of the y level, or the end of the loop.
NextInputY ==
    /\ pc = "y_loop"
    /\ IF pos <= Len(sliced_x)
       THEN /\ obj' = sliced_x[pos]
            /\ ready' = Coros(slice_locs["y"], "sliced_y")
            /\ pc' = "y_gather"
       ELSE /\ pc' = "z"
            /\ UNCHANGED <<obj, ready>>
    /\ UNCHANGED <<props, objects, orig_name, dims, current_obj, slice_locs,
                   num_slices, sliced_x, sliced_y, current_axis, current_loc,
                   current_index, result, frame, exc, pos, cleanup_objs, cuts, phases>>

\* line 372
UnlinkInputY ==
    /\ pc = "y_gather"
    /\ GatherDone
    /\ ~exc
    /\ objects' = Unlink(objects, obj)
    /\ phases' = Note(phases, "y")
    /\ pos' = pos + 1
    /\ pc' = "y_loop"
    /\ UNCHANGED <<props, obj, orig_name, dims, current_obj, slice_locs, num_slices,
                   sliced_x, sliced_y, current_axis, current_loc, current_index,
                   result, ready, frame, exc, cleanup_objs, cuts>>

\* lines 419-420, 376-386: slice_z up to its loop.
SliceZ ==
    /\ pc = "z"
    /\ z
    /\ current_axis' = "z"
    /\ IF slice_locs["z"] # <<>>
       THEN /\ sliced_y' = InputsOfZ
            /\ pos' = 1
            /\ pc' = "z_loop"
       ELSE /\ pc' = "cleanup"
            /\ UNCHANGED <<sliced_y, pos>>
    /\ UNCHANGED <<props, objects, obj, orig_name, dims, current_obj, slice_locs,
                   num_slices, sliced_x, current_loc, current_index, result, ready,
                   frame, exc, cleanup_objs, cuts, phases>>

\* line 419, self.z false
SkipZ ==
    /\ pc = "z"
    /\ ~z
    /\ pc' = "cleanup"
    /\ UNCHANGED <<props, objects, obj, orig_name, dims, current_obj, slice_locs,
                   num_slices, sliced_x, sliced_y, current_axis, current_loc,
                   current_index, result, ready, frame, exc, pos, cleanup_objs,
                   cuts, phases>>

\* lines 387-390
NextInputZ ==
    /\ pc = "z_loop"
    /\ IF pos <= Len(sliced_y)
       THEN /\ obj' = sliced_y[pos]
            /\ ready' = Coros(slice_locs["z"], "None")
            /\ pc' = "z_gather"
       ELSE /\ pc' = "cleanup"
            /\ UNCHANGED <<obj, ready>>
    /\ UNCHANGED <<props, objects, orig_name, dims, current_obj, slice_locs,
                   num_slices, sliced_x, sliced_y, current_axis, current_loc,
                   current_index, result, frame, exc, pos, cleanup_objs, cuts, phases>>

\* line 391
UnlinkInputZ ==
    /\ pc = "z_gather"
    /\ GatherDone
    /\ ~exc
    /\ objects' = Unlink(objects, obj)
    /\ phases' = Note(phases, "z")
    /\ pos' = pos + 1
    /\ pc' = "z_loop"
    /\ UNCHANGED <<props, obj, orig_name, dims, current_obj, slice_locs, num_slices,
                   sliced_x, sliced_y, current_axis, current_loc, current_index,
                   result, ready, frame, exc, cleanup_objs, cuts>>

\* ------------------------------------------------------------ _cleanup_objs
RECURSIVE LinkedTagged(_, _)
LinkedTagged(objs, k) ==
    IF k > Len(objs) THEN <<>>
    ELSE (IF objs[k].linked /\ objs[k].name.kind = "__Sliced__" THEN <<k>> ELSE <<>>)
         \o LinkedTagged(objs, k + 1)

\* A finalizer that discards on a single dimension at or below the threshold.
_invalid_dimensions_any(d) == Cardinality({a \in Axes : d[a] <= cleanup_threshold}) > 0

\* sum([v <= self.cleanup_threshold for v in dims]) > 1
_invalid_dimensions(d) == Cardinality({a \in Axes : d[a] <= cleanup_threshold}) > 1

\* A finalizer that leaves a discarded fragment in the list.
RemoveNothing(list, id) == list

\* list.remove(obj)
Remove(list, id) == SelectSeq(list, LAMBDA e : e # id)

\* lines 221-226, 243: collect the tagged objects and build the delete tasks.
CleanupCollect ==
    /\ pc = "cleanup"
    /\ cleanup_objs' = LinkedTagged(objects, 1)
    /\ ready' = Coros(LinkedTagged(objects, 1), "None")
    /\ pc' = "delete_gather"
    /\ UNCHANGED <<props, objects, obj, orig_name, dims, current_obj, slice_locs,
                   num_slices, sliced_x, sliced_y, current_axis, current_loc,
                   current_index, result, frame, exc, pos, cuts, phases>>

\* lines 229-234
Discards(o) == ~o.verts \/ _invalid_dimensions(Dimensions(o))

delete_small_obj ==
    /\ pc = "delete_gather"
    /\ ready # <<>>
    /\ LET id == Head(ready).arg IN
        IF Discards(objects[id])
        THEN /\ objects' = Unlink(objects, id)
             /\ cleanup_objs' = Remove(cleanup_objs, id)
             /\ phases' = Note(phases, "final")
        ELSE UNCHANGED <<objects, cleanup_objs, phases>>
    /\ ready' = Tail(ready)
    /\ UNCHANGED <<props, obj, orig_name, dims, current_obj, slice_locs, num_slices,
                   sliced_x, sliced_y, current_axis, current_loc, current_index,
                   pc, result, frame, exc, pos, cuts>>

\* lines 246-248, 252: the rename tasks over the survivors.
rename_objects ==
    /\ pc = "delete_gather"
    /\ ready = <<>>
    /\ ready' = Coros(cleanup_objs, "None")
    /\ pc' = "rename_gather"
    /\ UNCHANGED <<props, objects, obj, orig_name, dims, current_obj, slice_locs,
                   num_slices, sliced_x, sliced_y, current_axis, current_loc,
                   current_index, result, frame, exc, pos, cleanup_objs, cuts, phases>>

\* lines 236-240
rename_obj ==
    /\ pc = "rename_gather"
    /\ ready # <<>>
    /\ objects' = [objects EXCEPT ![Head(ready).arg].name = FinalName(Head(ready).index)]
    /\ phases' = Note(phases, "final")
    /\ ready' = Tail(ready)
    /\ UNCHANGED <<props, obj, orig_name, dims, current_obj, slice_locs, num_slices,
                   sliced_x, sliced_y, current_axis, current_loc, current_index,
                   pc, result, frame, exc, pos, cleanup_objs, cuts>>

\* lines 254-257, 423
Finish ==
    /\ pc = "rename_gather"
    /\ ready = <<>>
    /\ result' = "FINISHED"
    /\ pc' = "done"
    /\ UNCHANGED <<props, objects, obj, orig_name, dims, current_obj, slice_locs,
                   num_slices, sliced_x, sliced_y, current_axis, current_loc,
                   current_index, ready, frame, exc, pos, cleanup_objs, cuts, phases>>

\* ------------------------------------------------------------------ claims
\* The objects copied from object id.
Children(id) == {k \in 1..Len(objects) : objects[k].parent = id}

\* The gather over the tasks of the current input object has completed.
LevelGathered == Gathering /\ GatherDone

\* The source object as invoke found it.
SourceUntouched ==
    /\ objects[SourceId].linked
    /\ ~objects[SourceId].hidden
    /\ objects[SourceId].name = orig_name
    /\ objects[SourceId].verts
    /\ \A a \in Axes : objects[SourceId].hi[a] - objects[SourceId].lo[a] = dims[a]

\* C1: a run that ends Cancelled has mutated nothing: no fragment exists,
\* no cut was issued, and the source is linked, visible and keeps its name.
C1_CancelledMutatesNothing ==
    result = "CANCELLED" =>
        /\ Len(objects) = 1
        /\ cuts = {}
        /\ phases = <<>>
        /\ SourceUntouched

C1_Witness ==
    /\ result = "CANCELLED"
    /\ ~force /\ ~manifold
    /\ x /\ slice_locs["x"] # <<>>

\* C2 as stated: an axis plan of n >= 1 coordinates yields n+1 fragments of
\* one input object.
C2_Original ==
    (LevelGathered /\ Len(slice_locs[current_axis]) >= 1) =>
        Cardinality(Children(obj)) = Len(slice_locs[current_axis]) + 1

\* C2 amended: an axis plan of n >= 1 coordinates is processed at the
\* indices 0..n-1 and yields exactly n fragments of one input object.
C2_OneFragmentPerCoordinate ==
    (LevelGathered /\ Len(slice_locs[current_axis]) >= 1) =>
        /\ Cardinality(Children(obj)) = Len(slice_locs[current_axis])
        /\ {objects[k].name.index : k \in Children(obj)}
              = 0..(Len(slice_locs[current_axis]) - 1)
        /\ \A k \in Children(obj) : objects[k].name.axis = current_axis

C2_Witness ==
    /\ LevelGathered
    /\ current_axis = "y"
    /\ Len(slice_locs["y"]) = 3
    /\ Cardinality(Children(obj)) = 3

\* An axis level has completed or was skipped; "cleanup" is the entry to
\* finalization.
LevelComplete == pc \in {"y", "z", "cleanup"}

\* The fragments still linked and tagged as cascade products.
Live == {k \in 1..Len(objects) : objects[k].linked /\ objects[k].name.kind = "__Sliced__"}

Volume(o) == Dimensions(o)["x"] * Dimensions(o)["y"] * Dimensions(o)["z"]

RECURSIVE SumVolumes(_)
SumVolumes(ids) ==
    IF ids = {} THEN 0
    ELSE LET k == CHOOSE e \in ids : TRUE
         IN  Volume(objects[k]) + SumVolumes(ids \ {k})

\* Two boxes share an interval of positive length along axis a.
Overlap(a, o1, o2) == o1.verts /\ o2.verts /\ o1.lo[a] < o2.hi[a] /\ o2.lo[a] < o1.hi[a]

\* C3 as stated: after each axis level the live fragments partition the
\* source: the fragments cut from one input do not overlap along the axis
\* just cut, and the volumes of the live fragments add up to the source's.
C3_Partition ==
    (LevelComplete /\ Live # {}) =>
        /\ \A i \in Live : \A j \in Live :
              (i # j /\ objects[i].parent = objects[j].parent)
                  => ~Overlap(objects[i].name.axis, objects[i], objects[j])
        /\ SumVolumes(Live) = dims["x"] * dims["y"] * dims["z"]

\* The task that created fragment k has returned.
Completed(k) == k # current_obj \/ frame.pc = "idle"

\* C4 as stated: on an axis of positive extent with a generated coordinate
\* within the tolerance of the axis maximum, no exterior-discard cut is
\* issued at such a coordinate and no fragment of that axis pass has zero
\* extent along the axis.
C4_NoDegenerateAtBoundary ==
    \A a \in Axes :
        (dims[a] > 0 /\ \E k \in 1..Len(slice_locs[a]) : _loc_overlaps(slice_locs[a][k], a))
        => /\ \A c \in cuts :
                (c.axis = a /\ c.side = "outer") => ~_loc_overlaps(c.loc, a)
           /\ \A k \in 2..Len(objects) :
                (objects[k].name.kind = "__Sliced__" /\ objects[k].name.axis = a
                     /\ Completed(k))
                => (objects[k].verts /\ objects[k].hi[a] > objects[k].lo[a])

\* C5 as stated: a Finished run in which the source was cut leaves the
\* source hidden, renamed as the inert original, and linked.
C5_SourceHiddenNeverUnlinked ==
    (result = "FINISHED" /\ Children(SourceId) # {}) =>
        /\ objects[SourceId].hidden
        /\ objects[SourceId].name = InertName
        /\ objects[SourceId].linked

\* C6 as stated: once a cut has failed no task runs and no finalization
\* starts, the run ends reported as failed, and no fragment of the run is
\* left linked.
C6_FailureStopsAndCleansUp ==
    exc =>
        /\ frame.pc = "idle"
        /\ Gathering \/ pc = "done"
        /\ pc = "done" =>
              /\ result = "ERROR"
              /\ \A k \in 2..Len(objects) : ~objects[k].linked

StrictlyIncreasing(locs) == \A k \in 1..(Len(locs) - 1) : locs[k] < locs[k + 1]

\* C7 as stated: the cut coordinates generated for an axis are strictly
\* increasing, for every mode and every bounds, flat axes included.
C7_StrictlyIncreasing ==
    pc # "execute" => \A a \in Axes : StrictlyIncreasing(slice_locs[a])

\* C8: in RELATIVE mode every axis gets exactly slice_qty + 1 coordinates,
\* the k-th being min + k * cellWidth with cellWidth * (slice_qty + 1) equal
\* to the axis extent, so the last one is the axis maximum.
C8_RelativePlan ==
    (pc # "execute" /\ slice_type = "RELATIVE") =>
        \A a \in Axes :
            \E w \in 0..dims[a] :
                /\ w * (slice_qty + 1) = dims[a]
                /\ Len(slice_locs[a]) = slice_qty + 1
                /\ \A k \in 1..(slice_qty + 1) :
                      slice_locs[a][k] = _get_start_loc(a) + k * w
                /\ slice_locs[a][slice_qty + 1] = _get_end_loc(a)

C8_Witness ==
    /\ pc # "execute"
    /\ slice_type = "RELATIVE"
    /\ dims = [a \in Axes |-> IF a = "z" THEN 0 ELSE 6]
    /\ slice_locs["x"] = <<0, 2, 4>>

\* floor(extent / size), computed by repeated subtraction.
RECURSIVE Floor(_, _)
Floor(extent, size) == IF extent < size THEN 0 ELSE 1 + Floor(extent - size, size)

\* C9: in FIXED mode an axis with extent <= cell_size has an empty plan; any
\* other axis has floor(extent / cell_size) + 1 coordinates, the k-th being
\* min + k * cell_size.
C9_FixedPlan ==
    (pc # "execute" /\ slice_type = "FIXED") =>
        \A a \in Axes :
            IF dims[a] <= cell_size
            THEN slice_locs[a] = <<>>
            ELSE /\ Len(slice_locs[a]) = Floor(dims[a], cell_size) + 1
                 /\ \A k \in 1..Len(slice_locs[a]) :
                       slice_locs[a][k] = _get_start_loc(a) + k * cell_size

C9_Witness ==
    /\ pc # "execute"
    /\ slice_type = "FIXED"
    /\ cell_size = 4
    /\ dims = [a \in Axes |-> IF a = "x" THEN 6 ELSE 3]
    /\ slice_locs = [a \in Axes |-> IF a = "x" THEN <<2, 6>> ELSE <<>>]

Rank(phase) == CASE phase = "x" -> 1 [] phase = "y" -> 2 [] phase = "z" -> 3
                 [] phase = "final" -> 4

\* C10: the scene is mutated in the order X level, Y level, Z level,
\* finalization, never returning to an earlier phase; a task only runs
\* while its own level awaits its gather, and every scheduled task belongs
\* to the level that is running.
C10_PhasesInOrder ==
    /\ \A i \in 1..Len(phases) : \A j \in 1..Len(phases) :
          i < j => Rank(phases[i]) < Rank(phases[j])
    /\ frame.pc # "idle" =>
          /\ Gathering
          /\ frame.axis = current_axis
          /\ pc = current_axis \o "_gather"
          /\ phases[Len(phases)] = current_axis
    /\ (Gathering /\ ready # <<>>) =>
          /\ pc = current_axis \o "_gather"
          /\ \A k \in 1..Len(ready) : ready[k].arg \in
                {slice_locs[current_axis][n] : n \in 1..Len(slice_locs[current_axis])}
    /\ pc \in {"cleanup", "delete_gather", "rename_gather"} =>
          frame.pc = "idle"

C10_Witness ==
    /\ result = "FINISHED"
    /\ phases = <<"x", "y", "z", "final">>

\* The chunks a Finished run leaves in the scene under their final names.
Survivors == {k \in 1..Len(objects) : objects[k].linked /\ objects[k].name.kind = "_Sliced_"}

\* C11 as stated: a Relative run over all three axes on a source of positive
\* extents, with the threshold below every cell width, processes every
\* fragment of the previous pass in each pass and ends with (slice_qty+1)^3
\* surviving chunks, each of the dimensions extent/(slice_qty+1) on every axis.
C11_RelativeGrid ==
    (/\ result = "FINISHED"
     /\ slice_type = "RELATIVE" /\ slice_qty >= 2
     /\ x /\ y /\ z
     /\ \A a \in Axes : dims[a] > 0 /\ cleanup_threshold < dims[a] \div (slice_qty + 1))
    => /\ Cardinality(Children(SourceId)) = slice_qty + 1
       /\ \A k \in 2..Len(objects) :
             (objects[k].name.kind = "__Sliced__" /\ objects[k].name.axis \in {"x", "y"})
                 => Cardinality(Children(k)) = slice_qty + 1
       /\ Cardinality(Survivors) = (slice_qty + 1) * (slice_qty + 1) * (slice_qty + 1)
       /\ \A k \in Survivors : \A a \in Axes :
             Dimensions(objects[k])[a] = dims[a] \div (slice_qty + 1)

\* C12 as stated: a Fixed run over X alone on a box of X extent E with
\* cell_size c < E, E not a multiple of c (Y and Z extents above the
\* threshold), ends with floor(E/c)+1 chunks: the first floor(E/c) have the
\* X thickness c, the last one E - floor(E/c)*c, all with the full Y and Z
\* dimensions of the source.
C12_FixedRemainder ==
    (/\ result = "FINISHED"
     /\ slice_type = "FIXED"
     /\ x /\ ~y /\ ~z
     /\ cell_size < dims["x"] /\ dims["x"] % cell_size # 0
     /\ dims["y"] > cleanup_threshold /\ dims["z"] > cleanup_threshold)
    => LET n == Floor(dims["x"], cell_size)
       IN  /\ Cardinality(Survivors) = n + 1
           /\ \A k \in Survivors :
                 /\ objects[k].name.index \in 1..(n + 1)
                 /\ Dimensions(objects[k])["x"] =
                        IF objects[k].name.index <= n THEN cell_size
                        ELSE dims["x"] - n * cell_size
                 /\ Dimensions(objects[k])["y"] = dims["y"]
                 /\ Dimensions(objects[k])["z"] = dims["z"]

\* The fragments that entered finalization: the copies no later pass took
\* as its input.
Entered == {k \in 2..Len(objects) : Children(k) = {}}

\* The number of dimensions of o at or below the cleanup threshold.
SmallDims(o) == Cardinality({a \in Axes : o.hi[a] - o.lo[a] <= cleanup_threshold})

\* C13: once the delete tasks have run, a fragment that entered finalization
\* is unlinked if and only if it has no vertices or at least two of its
\* three dimensions are at or below the threshold.
C13_DiscardRule ==
    (pc \in {"rename_gather", "done"} /\ result # "CANCELLED") =>
        \A k \in Entered :
            (~objects[k].linked) <=> (~objects[k].verts \/ SmallDims(objects[k]) >= 2)

\* One run discards a fragment with exactly two small dimensions and keeps
\* a non-empty one with exactly one.
C13_Witness ==
    /\ result = "FINISHED"
    /\ \E k \in Entered : ~objects[k].linked /\ objects[k].verts /\ SmallDims(objects[k]) = 2
    /\ \E k \in Entered : objects[k].linked /\ objects[k].verts /\ SmallDims(objects[k]) = 1

\* C14: after finalization with k surviving fragments the final names carry
\* exactly the ordinals 1..k, each once, increasing in the order in which the
\* survivors were enumerated; discarded fragments take no ordinal.
C14_OrdinalsContiguous ==
    result = "FINISHED" =>
        /\ {objects[k].name.index : k \in Survivors} = 1..Cardinality(Survivors)
        /\ \A i \in Survivors : \A j \in Survivors :
              i < j => objects[i].name.index < objects[j].name.index
        /\ \A k \in 1..Len(objects) :
              objects[k].name.kind = "_Sliced_" => objects[k].linked

\* A discarded fragment was enumerated before two survivors.
C14_Witness ==
    /\ result = "FINISHED"
    /\ \E d \in Entered : \E i \in Survivors : \E j \in Survivors :
          /\ ~objects[d].linked
          /\ d < i /\ i < j

\* Axis a is selected for slicing.
Selected(a) == CASE a = "x" -> x [] a = "y" -> y [] a = "z" -> z

\* The run is inside the pass of axis a.
InPass(a) == pc \in {a, a \o "_loop", a \o "_gather"}

\* C15 as stated: in Fixed mode the pass of a selected axis whose extent is
\* at most cell_size changes nothing: no step of that pass creates a
\* fragment or alters the visibility, name or link state of any object, the
\* source included, also when the axis is X.
C15_EmptyAxisNoEffect ==
    [][\A a \in Axes :
          (slice_type = "FIXED" /\ Selected(a) /\ dims[a] <= cell_size /\ InPass(a))
              => objects' = objects]_vars

\* The fragment of index i that a pass over X alone leaves of the source:
\* it depends on the source and the X plan only.
XFragment(i) ==
    LET c  == slice_locs["x"]
        mx == SourceMin["x"] + dims["x"]
    IN  [lo     |-> [SourceMin EXCEPT !["x"] = IF i = 0 THEN SourceMin["x"] ELSE c[i]],
         hi     |-> [a \in Axes |->
                        IF a = "x" /\ i # num_slices["x"] /\ abs(c[i + 1] - mx) > Tolerance
                        THEN c[i + 1]
                        ELSE SourceMin[a] + dims[a]],
         verts  |-> TRUE,
         name   |-> TempName(i, "x"),
         linked |-> TRUE,
         hidden |-> FALSE,
         parent |-> SourceId]

\* C16: when the Y and Z plans are empty, a run over X enters finalization
\* with the fragments of the X pass and nothing else, whether Y and Z are
\* selected or not: the run over all three axes and the run over X alone
\* end with the same fragment set.
C16_EmptyPlansLikeXOnly ==
    (pc = "cleanup" /\ x /\ slice_locs["y"] = <<>> /\ slice_locs["z"] = <<>>) =>
        /\ Len(objects) = 1 + Len(slice_locs["x"])
        /\ \A i \in 0..(Len(slice_locs["x"]) - 1) : objects[i + 2] = XFragment(i)
        /\ Live = 2..Len(objects)

\* The run over all three axes, with a non-empty X plan.
C16_Witness ==
    /\ pc = "cleanup"
    /\ x /\ y /\ z
    /\ slice_locs["y"] = <<>> /\ slice_locs["z"] = <<>>
    /\ Len(slice_locs["x"]) >= 2

\* The task of fragment k has returned and k still carries its tag.
IsTagged(k) == k # SourceId /\ objects[k].name.kind = "__Sliced__" /\ Completed(k)

Tagged == {k \in 2..Len(objects) : IsTagged(k)}

\* The cuts issued on fragment k from side s.
CutsOn(k, s) == {c \in cuts : c.obj = k /\ c.side = s}

\* The exterior cut at c[i] is due for index i on axis a when n bounds the
\* index: i # n and c[i] is farther than the tolerance from the upper bound.
ExteriorDue(a, i, n) == i # n /\ abs(slice_locs[a][i + 1] - _get_end_loc(a)) > Tolerance

\* The cuts the rule demands of fragment k were issued: the interior cut at
\* c[i-1] if i # 0, the exterior cut at c[i] if it is due.
CutsIssued(k, n) ==
    LET a == objects[k].name.axis
        i == objects[k].name.index
    IN  /\ i # 0 => CutRecord(k, a, slice_locs[a][i], "inner", i) \in cuts
        /\ ExteriorDue(a, i, n)
              => CutRecord(k, a, slice_locs[a][i + 1], "outer", i) \in cuts

\* The cut e on a tagged fragment is one the rule demands, at the
\* coordinate the rule names.
CutDemanded(e, n) ==
    LET a == objects[e.obj].name.axis
        i == objects[e.obj].name.index
    IN  /\ e.axis = a
        /\ e.side = "inner" => (i # 0 /\ e.loc = slice_locs[a][i])
        /\ e.side = "outer" => (ExteriorDue(a, i, n) /\ e.loc = slice_locs[a][i + 1])

\* C17 as stated: with n the number of coordinates generated for the axis,
\* in both modes, a fragment of index i gets the interior cut at c[i-1] iff
\* i # 0 and the exterior cut at c[i] iff i # n and c[i] is farther than the
\* tolerance from the upper bound of the axis.
C17_Original ==
    /\ \A k \in Tagged : CutsIssued(k, Len(slice_locs[objects[k].name.axis]))
    /\ \A e \in cuts :
          IsTagged(e.obj) => CutDemanded(e, Len(slice_locs[objects[e.obj].name.axis]))

\* C17 amended: the same cut rule holds with n = _slices_in_axis(axis),
\* which is the number of coordinates in Relative mode and one less than the
\* number of coordinates in Fixed mode.
C17_CutRule ==
    /\ \A k \in Tagged :
          LET a == objects[k].name.axis
          IN  /\ CutsIssued(k, _slices_in_axis(a))
              /\ _slices_in_axis(a) = IF slice_type = "RELATIVE"
                                      THEN Len(slice_locs[a])
                                      ELSE Len(slice_locs[a]) - 1
    /\ \A e \in cuts :
          IsTagged(e.obj) => CutDemanded(e, _slices_in_axis(objects[e.obj].name.axis))

\* The last fragment of a Fixed pass: its index equals _slices_in_axis, its
\* coordinate lies beyond the tolerance of the axis maximum, and it got the
\* interior cut only.
C17_Witness ==
    \E k \in Tagged :
        LET a == objects[k].name.axis
            i == objects[k].name.index
        IN  /\ slice_type = "FIXED"
            /\ i = _slices_in_axis(a) /\ i # 0
            /\ abs(slice_locs[a][i + 1] - _get_end_loc(a)) > Tolerance
            /\ CutsOn(k, "inner") # {} /\ CutsOn(k, "outer") = {}

\* A task is between its duplicate and its return.
InTask == frame.pc \in {"inner", "outer", "return"}

\* C18: the shared fields current_obj, current_loc and current_index hold
\* the running task's own fragment, coordinate and index for the whole of
\* the task; every cut recorded hit a fragment of the pass and index that
\* issued it, never the source; and the fragments a pass appended to its
\* output list are the ones its tasks created, one per index.
C18_TaskOwnsItsCuts ==
    /\ InTask =>
          /\ current_obj = Len(objects)
          /\ objects[current_obj].name = TempName(frame.i, frame.axis)
          /\ objects[current_obj].parent = obj
          /\ current_index = frame.i
          /\ current_axis = frame.axis
          /\ current_loc = slice_locs[frame.axis][frame.i + 1]
    /\ \A c \in cuts :
          /\ c.obj # SourceId
          /\ objects[c.obj].name.kind = "__Sliced__"
                => objects[c.obj].name = TempName(c.index, c.axis)
          /\ c.loc = slice_locs[c.axis][IF c.side = "inner" THEN c.index ELSE c.index + 1]
    /\ objects[SourceId].verts
    /\ \A a \in Axes : objects[SourceId].hi[a] - objects[SourceId].lo[a] = dims[a]
    /\ pc = "x_gather" =>
          \A k \in 1..Len(sliced_x) :
              /\ objects[sliced_x[k]].name = TempName(k - 1, "x")
              /\ objects[sliced_x[k]].parent = obj
    /\ pc = "y_gather" =>
          \A k \in 1..Len(sliced_y) :
              /\ objects[sliced_y[k]].name.axis = "y"
              /\ objects[sliced_y[k]].parent \in {sliced_x[p] : p \in 1..pos}
              /\ Completed(sliced_y[k])

\* The third task of a Y pass over the second input is about to return:
\* earlier tasks of the same gather have run and cut their own fragments.
C18_Witness ==
    /\ pc = "y_gather"
    /\ pos = 2
    /\ frame.pc = "return" /\ frame.i = 2
    /\ \E c \in cuts : c.obj = current_obj /\ c.side = "inner"
    /\ \E c \in cuts : c.obj = current_obj - 1 /\ c.side = "outer"

\* The selected axes whose plan is not empty: the passes that cut.
CutAxes == {a \in Axes : Selected(a) /\ slice_locs[a] # <<>>}

\* The last of them in the order x, y, z.
LastCutAxis == CHOOSE a \in CutAxes : \A b \in CutAxes : Rank(b) <= Rank(a)

\* C19: on entry to finalization the fragments still linked and tagged are
\* exactly the outputs of the last axis pass that cut; every fragment that
\* was the input of a later pass is unlinked, and the finalizer collects
\* none of them.
C19_OnlyLastPassCollected ==
    /\ pc = "cleanup" =>
          /\ CutAxes = {} => Live = {}
          /\ CutAxes # {} =>
                /\ Live = {k \in 2..Len(objects) : objects[k].name.axis = LastCutAxis}
                /\ \A k \in 2..Len(objects) :
                      Children(k) # {} =>
                          /\ ~objects[k].linked
                          /\ Rank(objects[k].name.axis) < Rank(LastCutAxis)
    /\ pc = "delete_gather" =>
          \A k \in 1..Len(cleanup_objs) :
              /\ Children(cleanup_objs[k]) = {}
              /\ objects[cleanup_objs[k]].name.axis = LastCutAxis

\* X and Z cut, Y is not selected: the X fragments were the inputs of Z.
C19_Witness ==
    /\ pc = "cleanup"
    /\ x /\ ~y /\ z
    /\ slice_locs["x"] # <<>> /\ slice_locs["z"] # <<>>
    /\ \E k \in 2..Len(objects) : Children(k) # {} /\ ~objects[k].linked
    /\ Live # {}

\* The objects the scene held before the run, the source aside.
Others == {k \in 1..Len(objects) : k # SourceId /\ objects[k].parent = 0}

\* C20 as stated: the run unlinks or renames only fragments it created:
\* every other object the scene held before the run stays linked and keeps
\* its name, a leftover tagged "__Sliced__" included.
C20_OthersUntouched ==
    \A k \in Others :
        /\ objects[k].linked
        /\ objects[k].name \in {Leftover.name, Bystander.name}

\* ------------------------------------------------------- specifications
Next ==
    \/ GetSliceLocs
    \/ CancelNonManifold
    \/ CancelNoAxis
    \/ StartCascade
    \/ SliceX
    \/ SkipX
    \/ HideOriginal
    \/ SliceY
    \/ SkipY
    \/ NextInputY
    \/ UnlinkInputY
    \/ SliceZ
    \/ SkipZ
    \/ NextInputZ
    \/ UnlinkInputZ
    \/ AsyncSlice
    \/ SliceInner
    \/ SliceOuter
    \/ AsyncSliceReturn
    \/ CleanupCollect
    \/ delete_small_obj
    \/ rename_objects
    \/ rename_obj
    \/ Finish

\* The mesh-editing collaborator never fails.
Spec == Init /\ [][Next]_vars

\* The mesh-editing collaborator may fail in any cut.
NextFaulty == Next \/ BisectFails \/ Raise

SpecFaulty == Init /\ [][NextFaulty]_vars

\* The slice plan builder alone.
PlanNext == GetSliceLocs

SpecPlan == PlanInit /\ [][PlanNext]_vars

\* The run in a scene that holds other objects.
SpecScene == SceneInit /\ [][Next]_vars

=============================================================================
